---- MODULE Spec2Model ----
(***************************************************************************)
(* A model of the holiday bot of src/main.py: the size-bounded message     *)
(* cache (MemoryOptimizedCache), the hot-reloaded configuration accessor,  *)
(* the 15-minute send loop (check_holiday_messages) and the 6-hour         *)
(* retraction loop (cleanup_task / _delete_old_messages).                  *)
(*                                                                         *)
(* Time is counted in minutes since 00:00 UTC of StartDate.  Python dicts  *)
(* are sequences of <<key, value>> pairs in insertion order, because       *)
(* min() over dict keys and list(dict.keys()) depend on that order.        *)
(***************************************************************************)
EXTENDS Integers, Sequences, FiniteSets, TLC

VARIABLES
    now,                \* the wall clock (UTC), in minutes
    data,               \* MemoryOptimizedCache._data
    timestamps,         \* MemoryOptimizedCache._timestamps
    max_size,           \* MemoryOptimizedCache._max_size
    call,               \* the cache harness's record of its last call
    file,               \* config.json: what it holds, or that it is missing
    file_mtime,         \* config.json: its modification time (a revision count)
    config,             \* HolidayBot._config: <<>> for None, <<doc>> once loaded
    config_mtime,       \* HolidayBot._config_mtime
    last_config_check,  \* HolidayBot._last_config_check
    holiday_keys_cache, \* HolidayBot._holiday_keys_cache: <<>> for None, <<keys>>
    channel_cache,      \* HolidayBot._channel_cache: "None" or the channel's type
    sent_today_cache,   \* HolidayBot._sent_today_cache
    last_check_date,    \* HolidayBot._last_check_date: <<>> for None, <<y, m, d>>
    ready,              \* the client's ready event (wait_until_ready)
    sched_pc,           \* check_holiday_messages: where its loop stands
    sched_next,         \* check_holiday_messages: the time of its next iteration
    sched_local,        \* check_holiday_messages: date_key and content of a tick in flight
    sweep_pc,           \* cleanup_task: where its loop stands
    sweep_next,         \* cleanup_task: the time of its next iteration
    to_delete,          \* _delete_old_messages: the candidates not yet handled
    sched_log,          \* what the last two ticks of check_holiday_messages did
    sweep_log,          \* what cleanup_task did last
    sent_log,           \* the dates on which channel.send has returned a message
    edits,              \* how often config.json has been edited
    readies             \* how often on_ready has run

cacheVars == <<data, timestamps, max_size>>

configVars == <<file, file_mtime, config, config_mtime, last_config_check,
                holiday_keys_cache, channel_cache>>

botVars == <<sent_today_cache, last_check_date, ready, sched_pc, sched_next,
             sched_local, sweep_pc, sweep_next, to_delete, sched_log, sweep_log,
             sent_log, edits, readies>>

(***************************************************************************)
(* Python dict, as a sequence of <<key, value>> pairs in insertion order.  *)
(***************************************************************************)
DictKeys(d) == {d[i][1] : i \in DOMAIN d}

DictKeyList(d) == [i \in DOMAIN d |-> d[i][1]]

DictHas(d, k) == k \in DictKeys(d)

DictGet(d, k) == d[CHOOSE i \in DOMAIN d : d[i][1] = k][2]

\* d[k] = v: an existing key keeps its position, a new key goes last.
DictPut(d, k, v) ==
    IF DictHas(d, k)
    THEN [i \in DOMAIN d |-> IF d[i][1] = k THEN <<k, v>> ELSE d[i]]
    ELSE Append(d, <<k, v>>)

\* d.pop(k, None)
DictPop(d, k) == SelectSeq(d, LAMBDA e : e[1] # k)

(***************************************************************************)
(* MemoryOptimizedCache.  A cache value c is [data, timestamps, max_size]. *)
(***************************************************************************)
Cache == [data |-> data, timestamps |-> timestamps, max_size |-> max_size]

\* The cache becomes c.
Install(c) ==
    /\ data' = c.data
    /\ timestamps' = c.timestamps
    /\ max_size' = c.max_size

\* An eviction that picks the most recently touched key.
NewestKey(ts) ==
    LET most == CHOOSE i \in DOMAIN ts : \A j \in DOMAIN ts : ts[i][2] >= ts[j][2]
    IN  ts[most][1]

\* min(self._timestamps.keys(), key=lambda k: self._timestamps[k]): the first
\* key, in insertion order, among those of least timestamp.
OldestKey(ts) ==
    LET least == CHOOSE i \in DOMAIN ts :
                    /\ \A j \in DOMAIN ts : ts[i][2] <= ts[j][2]
                    /\ \A j \in DOMAIN ts : ts[j][2] = ts[i][2] => i <= j
    IN  ts[least][1]

\* A get that stamps the key whether or not it holds a value.
CacheGetStampsMiss(c, k, t) == [c EXCEPT !.timestamps = DictPut(c.timestamps, k, t)]

\* get: a hit refreshes the key's timestamp; the cache after the call.
CacheGet(c, k, t) ==
    IF DictHas(c.data, k)
    THEN [c EXCEPT !.timestamps = DictPut(c.timestamps, k, t)]
    ELSE c

\* get: the value returned, <<v>> for a hit and <<>> for None.
CacheGetValue(c, k) == IF DictHas(c.data, k) THEN <<DictGet(c.data, k)>> ELSE <<>>

\* set raises ValueError when min() is given no keys.
CacheSetRaises(c) == Len(c.data) >= c.max_size /\ c.timestamps = <<>>

\* A set that evicts only once the cache is over its capacity.
CacheSetEvictsLate(c, k) == Len(c.data) > c.max_size

\* The "if at capacity" branch of set: the condition under which it evicts.
CacheSetEvicts(c, k) == Len(c.data) >= c.max_size

\* set, when it does not raise.
CacheSet(c, k, v, t) ==
    LET afterEvict ==
            IF CacheSetEvicts(c, k)
            THEN [c EXCEPT !.data = DictPop(c.data, OldestKey(c.timestamps)),
                           !.timestamps = DictPop(c.timestamps, OldestKey(c.timestamps))]
            ELSE c
    IN  [afterEvict EXCEPT !.data = DictPut(afterEvict.data, k, v),
                           !.timestamps = DictPut(afterEvict.timestamps, k, t)]

CacheRemove(c, k) ==
    [c EXCEPT !.data = DictPop(c.data, k), !.timestamps = DictPop(c.timestamps, k)]

\* cleanup_old: timestamps are in minutes, so max_age_hours * 3600 s is * 60.
CacheCleanupOld(c, max_age_hours, t) ==
    LET cutoff == t - max_age_hours * 60
        old_keys == {c.timestamps[i][1] : i \in {j \in DOMAIN c.timestamps :
                                                    c.timestamps[j][2] < cutoff}}
    IN  [c EXCEPT !.data = SelectSeq(c.data, LAMBDA e : e[1] \notin old_keys),
                  !.timestamps = SelectSeq(c.timestamps, LAMBDA e : e[1] \notin old_keys)]

(***************************************************************************)
(* The clock.  datetime.now(timezone.utc) is `now` minutes after 00:00 of  *)
(* StartDate; its year, month and day are DateOf(now).                     *)
(***************************************************************************)
StartDate == <<2025, 1, 1>>

MinutesPerDay == 24 * 60

MonthLength(y, m) ==
    IF m = 2 THEN (IF y % 4 = 0 /\ (y % 100 # 0 \/ y % 400 = 0) THEN 29 ELSE 28)
    ELSE IF m \in {4, 6, 9, 11} THEN 30 ELSE 31

NextDay(date) ==
    IF date[3] < MonthLength(date[1], date[2]) THEN <<date[1], date[2], date[3] + 1>>
    ELSE IF date[2] < 12 THEN <<date[1], date[2] + 1, 1>>
    ELSE <<date[1] + 1, 1, 1>>

RECURSIVE AddDays(_, _)
AddDays(date, n) == IF n = 0 THEN date ELSE AddDays(NextDay(date), n - 1)

\* f"{now.year}-{now.month}-{now.day}", as <<year, month, day>>
DateOf(t) == AddDays(StartDate, t \div MinutesPerDay)

\* get_date_key: f"{now.month}-{now.day}", as <<month, day>>
DateKey(t) == <<DateOf(t)[2], DateOf(t)[3]>>

\* now.replace(hour=h, minute=m, second=0, microsecond=0)
ReplaceTime(t, h, m) == (t \div MinutesPerDay) * MinutesPerDay + h * 60 + m

\* A window that is open before the target time too.
IsMessageTimeNoStart(t, target_hour, target_minute, tolerance_minutes) ==
    t <= ReplaceTime(t, target_hour, target_minute) + tolerance_minutes

\* is_message_time: target_time <= now <= target_time + tolerance
IsMessageTime(t, target_hour, target_minute, tolerance_minutes) ==
    LET target_time == ReplaceTime(t, target_hour, target_minute)
    IN  target_time <= t /\ t <= target_time + tolerance_minutes

PollMinutes == 15
ToleranceMinutes == 10
CleanupHours == 6
CacheMaxAgeHours == 48
DebounceSeconds == 300
BotCacheSize == 20

(***************************************************************************)
(* config.json.  A document is a well-formed configuration; the file holds *)
(* one, or is missing, or cannot be read or parsed.                        *)
(***************************************************************************)
DefaultConfig ==
    [channel_id |-> "general",
     hour |-> 22, minute |-> 0,
     delete_after_hours |-> 24,
     holiday_messages |-> (<<1, 1>> :> "Test Holiday!" @@
                           <<2, 14>> :> "Happy Valentine's Day!" @@
                           <<12, 25>> :> "Merry Christmas!")]

\* The documents an edit may put in the file, besides the default one: a later
\* send time with a shorter retention and one more event, a channel id that
\* no channel has, and a calendar without the events of January.
LaterConfig ==
    [DefaultConfig EXCEPT !.minute = 15, !.delete_after_hours = 6,
                          !.holiday_messages = (<<1, 1>> :> "Happy New Year!" @@
                                                <<1, 2>> :> "Second day!")]

NoChannelConfig == [DefaultConfig EXCEPT !.channel_id = "gone"]

OtherDaysConfig ==
    [DefaultConfig EXCEPT !.holiday_messages = (<<2, 14>> :> "Happy Valentine's Day!")]

Documents == {DefaultConfig, LaterConfig, NoChannelConfig, OtherDaysConfig}

FileMissing == [kind |-> "missing", doc |-> <<>>]
\* open, stat or json.load raises OSError or JSONDecodeError.
FileUnreadable == [kind |-> "unreadable", doc |-> <<>>]
\* The bytes of the file are not UTF-8: reading raises UnicodeDecodeError.
FileUndecodable == [kind |-> "undecodable", doc |-> <<>>]
FileWith(doc) == [kind |-> "document", doc |-> <<doc>>]

FileStates ==
    {FileMissing, FileUnreadable, FileUndecodable} \cup {FileWith(doc) : doc \in Documents}

\* self.get_channel(channel_id): the channels of the guild.
GetChannel(channel_id) ==
    CASE channel_id = "general" -> "TextChannel"
      [] channel_id = "lounge" -> "VoiceChannel"
      [] OTHER -> "None"

(***************************************************************************)
(* The configuration accessor and what is derived from it.  They run       *)
(* inside other handlers, several times in one step, so they are operators *)
(* on a record s of the fields and the file they read and write.           *)
(***************************************************************************)
Store ==
    [file |-> file, file_mtime |-> file_mtime, config |-> config,
     config_mtime |-> config_mtime, last_config_check |-> last_config_check,
     holiday_keys_cache |-> holiday_keys_cache, channel_cache |-> channel_cache]

InstallStore(s) ==
    /\ file' = s.file
    /\ file_mtime' = s.file_mtime
    /\ config' = s.config
    /\ config_mtime' = s.config_mtime
    /\ last_config_check' = s.last_config_check
    /\ holiday_keys_cache' = s.holiday_keys_cache
    /\ channel_cache' = s.channel_cache

\* self._config or self._default_config
ConfigValue(s) == IF s.config # <<>> THEN s.config[1] ELSE DefaultConfig

\* An accessor without the five-minute debounce.
ConfigDebouncedNever(s, t) == FALSE

\* The accessor's first test: the last check was less than 300 s ago.
ConfigDebounced(s, t) == (t - s.last_config_check) * 60 < DebounceSeconds

\* The config property, at time t: the fields and the file after it.  write_ok
\* says whether writing the default file, if it comes to that, succeeds.
ConfigAccess(s, t, write_ok) ==
    IF ConfigDebounced(s, t) THEN s
    ELSE LET checked == [s EXCEPT !.last_config_check = t]
         IN  IF s.file.kind # "missing"
             THEN IF s.file_mtime # s.config_mtime /\ s.file.kind = "document"
                  THEN [checked EXCEPT !.config = s.file.doc,
                                       !.config_mtime = s.file_mtime,
                                       !.holiday_keys_cache = <<>>,
                                       !.channel_cache = "None"]
                  ELSE checked
             ELSE IF s.config = <<>> /\ write_ok
                  THEN [checked EXCEPT !.file = FileWith(DefaultConfig),
                                       !.file_mtime = s.file_mtime + 1,
                                       !.config = <<DefaultConfig>>]
                  ELSE checked

\* The config property raises: the except clause of line 152 names OSError
\* and JSONDecodeError only, and json.load of a file that is not UTF-8 raises
\* UnicodeDecodeError, after _last_config_check was set.
ConfigRaises(s, t) ==
    /\ ~ConfigDebounced(s, t)
    /\ s.file.kind = "undecodable"
    /\ s.file_mtime # s.config_mtime

\* Writing the default file succeeds or raises OSError; it is tried only when
\* there is neither a file nor a loaded configuration.
WriteOutcomes(s) ==
    IF s.file.kind = "missing" /\ s.config = <<>> THEN BOOLEAN ELSE {TRUE}

\* The holiday_keys property: the fields after it; its value is then
\* holiday_keys_cache[1].
HolidayKeys(s, t, write_ok) ==
    IF s.holiday_keys_cache = <<>>
    THEN LET s1 == ConfigAccess(s, t, write_ok)
         IN  [s1 EXCEPT !.holiday_keys_cache =
                            <<DOMAIN ConfigValue(s1).holiday_messages>>]
    ELSE s

\* get_target_channel: the fields after it.
GetTargetChannel(s, t, write_ok) ==
    IF s.channel_cache = "None"
    THEN LET s1 == ConfigAccess(s, t, write_ok)
         IN  [s1 EXCEPT !.channel_cache = GetChannel(ConfigValue(s1).channel_id)]
    ELSE s

\* get_target_channel: whether it returns a channel, given the fields after it.
HasTargetChannel(s) == s.channel_cache = "TextChannel"

(***************************************************************************)
(* The bot.  Both loops are started by setup_hook at the same moment and   *)
(* their first iteration waits for the ready event.  A handler runs        *)
(* without interruption up to its next await of the network or of a sleep. *)
(***************************************************************************)
MaxHours == 56
MaxEdits == 1
MaxReady == 2
FirstStart == 1310

\* The process may start at any minute of a quarter of an hour, here the one
\* from 21:50 on.  Two of them stand for the rest where the configuration is
\* edited as well: after 5 minutes a tick falls on the last minute of the
\* default window, after 10 minutes on its first.
AllStartTimes == FirstStart .. (FirstStart + PollMinutes - 1)

StartTimes == {FirstStart + 5, FirstStart + 10}

Horizon == FirstStart + MaxHours * 60

NoLocal == [date_key |-> <<>>, content |-> ""]

Logged(at, result, key, hour, minute) ==
    [at |-> at, result |-> result, key |-> key, hour |-> hour, minute |-> minute]

\* The log keeps the last two ticks.
LogTick(entry) ==
    sched_log' = IF sched_log = <<>> THEN <<entry>> ELSE <<sched_log[Len(sched_log)], entry>>

LastTick == sched_log[Len(sched_log)]

NoCall == [op |-> "new", key |-> "", value |-> "", at |-> 0,
           raised |-> FALSE, before |-> <<>>]

\* HolidayBot.__init__ and setup_hook.
InitBot ==
    /\ call = NoCall
    /\ file_mtime = 1
    /\ config = <<>>
    /\ config_mtime = 0
    /\ last_config_check = 0
    /\ holiday_keys_cache = <<>>
    /\ channel_cache = "None"
    /\ sent_today_cache = {}
    /\ last_check_date = <<>>
    /\ ready = FALSE
    /\ sched_pc = "wait_until_ready"
    /\ sched_next = now
    /\ sched_local = NoLocal
    /\ sweep_pc = "wait_until_ready"
    /\ sweep_next = now
    /\ to_delete = <<>>
    /\ sched_log = <<>>
    /\ sweep_log = [at |-> 0, result |-> "none", key |-> <<>>, slept |-> FALSE]
    /\ sent_log = {}
    /\ edits = 0
    /\ readies = 0

Init ==
    /\ now \in StartTimes
    /\ data = <<>>
    /\ timestamps = <<>>
    /\ max_size = BotCacheSize
    /\ file = FileWith(DefaultConfig)
    /\ InitBot

\* on_ready.  The library sets the ready event and calls the handler at the
\* first READY of the gateway and again after every reconnect that could not
\* resume its session.
\* Here it happens at the instants of the ticks, between two
\* handlers.
OnReady(write_ok) ==
    /\ readies < MaxReady
    /\ readies' = readies + 1
    /\ ready' = TRUE
    /\ InstallStore(GetTargetChannel(Store, now, write_ok))
    /\ sent_today_cache' = {}
    /\ UNCHANGED <<now, cacheVars, call, last_check_date, sched_pc, sched_next,
                   sched_local, sweep_pc, sweep_next, to_delete, sched_log,
                   sweep_log, sent_log, edits>>

\* Somebody edits, replaces, breaks or removes config.json.
EditConfig(f) ==
    /\ edits < MaxEdits
    /\ f # file
    /\ edits' = edits + 1
    /\ file' = f
    /\ file_mtime' = file_mtime + 1
    /\ UNCHANGED <<now, cacheVars, call, config, config_mtime, last_config_check,
                   holiday_keys_cache, channel_cache, sent_today_cache,
                   last_check_date, ready, sched_pc, sched_next, sched_local,
                   sweep_pc, sweep_next, to_delete, sched_log, sweep_log, sent_log,
                   readies>>

\* What one run of check_holiday_messages comes to, up to its await of
\* channel.send: the fields after it, the guard after it, where the loop
\* stands then, and what the tick found.
TickResult(s, guard, pc, result, key, content, hour, minute) ==
    [store |-> s, guard |-> guard, pc |-> pc, result |-> result, key |-> key,
     content |-> content, hour |-> hour, minute |-> minute]

\* Loops that do not wait for the ready event.
NeverWaits == TRUE

\* await self.wait_until_ready() returns once the ready event is set.
WaitUntilReady == ready

\* A guard that a new day does not clear.
GuardKept(guard, last_date, today) == guard

\* Lines 231-237: the guard is cleared when the date has changed.
GuardAfterDateCheck(guard, last_date, today) ==
    IF last_date # today THEN {} ELSE guard

CheckHolidayTick(s, guard0, last_date, t, write_ok) ==
    LET guard == GuardAfterDateCheck(guard0, last_date, DateOf(t))
        date_key == DateKey(t)
        s1 == HolidayKeys(s, t, write_ok)
        s2 == ConfigAccess(s1, t, write_ok)
        hour == ConfigValue(s2).hour
        minute == ConfigValue(s2).minute
        s3 == ConfigAccess(s2, t, write_ok)
        messages == ConfigValue(s3).holiday_messages
        s4 == GetTargetChannel(s3, t, write_ok)
    IN  IF date_key \notin s1.holiday_keys_cache[1] \/ date_key \in guard
        THEN TickResult(s1, guard, "idle", "skipped", date_key, "", 0, 0)
        ELSE IF ~IsMessageTime(t, hour, minute, ToleranceMinutes)
        THEN TickResult(s2, guard, "idle", "outside_window", date_key, "", hour, minute)
        ELSE IF date_key \notin DOMAIN messages
        THEN TickResult(s3, guard, "stopped", "KeyError", date_key, "", hour, minute)
        ELSE IF ~HasTargetChannel(s4)
        THEN TickResult(s4, guard, "idle", "no_channel", date_key,
                        messages[date_key], hour, minute)
        ELSE TickResult(s4, guard, "sending", "sending", date_key,
                        messages[date_key], hour, minute)

\* check_holiday_messages, from wait_until_ready to its return or to its
\* await of channel.send.
CheckHolidayMessages(write_ok) ==
    /\ WaitUntilReady
    /\ sched_pc = "wait_until_ready" \/ (sched_pc = "idle" /\ now = sched_next)
    /\ LET r == CheckHolidayTick(Store, sent_today_cache, last_check_date, now, write_ok)
       IN  /\ InstallStore(r.store)
           /\ sent_today_cache' = r.guard
           /\ sched_pc' = r.pc
           /\ sched_local' = IF r.pc = "sending"
                             THEN [date_key |-> r.key, content |-> r.content]
                             ELSE NoLocal
           /\ LogTick(Logged(now, r.result, r.key, r.hour, r.minute))
    /\ last_check_date' = DateOf(now)
    /\ sched_next' = now + PollMinutes
    /\ UNCHANGED <<now, cacheVars, call, ready, sweep_pc, sweep_next, to_delete,
                   sweep_log, sent_log, edits, readies>>

\* A bot that marks the day as sent whatever channel.send came to.
MarksGuardAlways(outcome) == TRUE

\* "if message:": the send has returned a message.
MarksGuard(outcome) == outcome = "message"

\* channel.send returns a message or raises Forbidden or HTTPException, and
\* check_holiday_messages runs from there to its end.
SendReturns(outcome) ==
    /\ sched_pc = "sending"
    /\ IF outcome = "message" /\ CacheSetRaises(Cache)
       THEN /\ sched_pc' = "stopped"
            /\ UNCHANGED <<cacheVars, sent_today_cache>>
       ELSE /\ sched_pc' = "idle"
            /\ IF outcome = "message"
               THEN Install(CacheSet(Cache, sched_local.date_key,
                                     [id |-> now, timestamp |-> now], now))
               ELSE UNCHANGED cacheVars
            /\ sent_today_cache' = IF MarksGuard(outcome)
                                   THEN sent_today_cache \cup {sched_local.date_key}
                                   ELSE sent_today_cache
    /\ sent_log' = IF outcome = "message" THEN sent_log \cup {DateOf(now)} ELSE sent_log
    /\ sched_log' = [sched_log EXCEPT ![Len(sched_log)].result =
                        IF outcome = "message" THEN "sent" ELSE outcome]
    /\ sched_local' = NoLocal
    /\ UNCHANGED <<now, call, configVars, last_check_date, ready, sched_next,
                   sweep_pc, sweep_next, to_delete, sweep_log, edits, readies>>

\* cutoff_timestamp: timestamps are in minutes, so hours * 3600 s is * 60.
Cutoff(t, hours) == t - hours * 60

\* A sweep that also takes the records exactly as old as the retention.
IsExpiredOrDue(msg_data, cutoff_timestamp) == msg_data.timestamp <= cutoff_timestamp

\* msg_data["timestamp"] < cutoff_timestamp
IsExpired(msg_data, cutoff_timestamp) == msg_data.timestamp < cutoff_timestamp

\* The loop of lines 294-297 reads every key with get, which touches it.
RECURSIVE GetEach(_, _, _)
GetEach(c, keys, t) ==
    IF keys = <<>> THEN c ELSE GetEach(CacheGet(c, keys[1], t), Tail(keys), t)

\* to_delete: the (date_key, message id) of the expired records, in the
\* order of the cache.
Candidates(c, cutoff_timestamp) ==
    LET old == SelectSeq(c.data, LAMBDA e : IsExpired(e[2], cutoff_timestamp))
    IN  [i \in DOMAIN old |-> <<old[i][1], old[i][2].id>>]

SweepLogged(result, key, slept) ==
    sweep_log' = [at |-> now, result |-> result, key |-> key, slept |-> slept]

\* cleanup_task, from wait_until_ready to its return or to the first await of
\* _delete_old_messages.
CleanupTask(write_ok) ==
    /\ WaitUntilReady
    /\ sweep_pc = "wait_until_ready" \/ (sweep_pc = "idle" /\ now = sweep_next)
    /\ sweep_next' = now + CleanupHours * 60
    /\ LET c1 == CacheCleanupOld(Cache, CacheMaxAgeHours, now)
           s1 == GetTargetChannel(Store, now, write_ok)
           s2 == ConfigAccess(s1, now, write_ok)
           cutoff_timestamp == Cutoff(now, ConfigValue(s2).delete_after_hours)
           c2 == GetEach(c1, DictKeyList(c1.data), now)
           found == Candidates(c1, cutoff_timestamp)
       IN  IF ~HasTargetChannel(s1)
           THEN /\ InstallStore(s1)
                /\ Install(c1)
                /\ to_delete' = <<>>
                /\ sweep_pc' = "idle"
                /\ SweepLogged("no_channel", <<>>, FALSE)
           ELSE /\ InstallStore(s2)
                /\ Install(c2)
                /\ to_delete' = found
                /\ sweep_pc' = IF found = <<>> THEN "idle" ELSE "fetch_message"
                /\ SweepLogged("selected", <<>>, FALSE)
    /\ UNCHANGED <<now, call, sent_today_cache, last_check_date, ready, sched_pc,
                   sched_next, sched_local, sched_log, sent_log, edits, readies>>

\* A sweep that keeps the record when the delete failed for now.
RemovedUnlessTransient(result) == result # "HTTPException"

\* The finally clause: the record is removed whatever the attempt came to.
RemovedAfter(result) == TRUE

\* The end of one pass of the loop of lines 300-311.
CandidateDone(result, slept) ==
    /\ IF RemovedAfter(result)
       THEN Install(CacheRemove(Cache, to_delete[1][1]))
       ELSE UNCHANGED cacheVars
    /\ to_delete' = Tail(to_delete)
    /\ sweep_pc' = IF Tail(to_delete) = <<>> THEN "idle" ELSE "fetch_message"
    /\ SweepLogged(result, to_delete[1][1], slept)

sweepFrame == <<now, call, configVars, sent_today_cache, last_check_date, ready,
                sched_pc, sched_next, sched_local, sweep_next, sched_log, sent_log,
                edits, readies>>

\* channel.fetch_message returns the message or raises.
FetchMessage(outcome) ==
    /\ sweep_pc = "fetch_message"
    /\ IF outcome = "message"
       THEN /\ sweep_pc' = "delete"
            /\ UNCHANGED <<cacheVars, to_delete, sweep_log>>
       ELSE CandidateDone(outcome, FALSE)
    /\ UNCHANGED sweepFrame

\* message.delete returns or raises; after a delete the task sleeps a second.
DeleteMessage(outcome) ==
    /\ sweep_pc = "delete"
    /\ IF outcome = "deleted"
       THEN /\ sweep_pc' = "sleep"
            /\ UNCHANGED <<cacheVars, to_delete, sweep_log>>
       ELSE CandidateDone(outcome, FALSE)
    /\ UNCHANGED sweepFrame

\* asyncio.sleep(1) returns.
SleepDone ==
    /\ sweep_pc = "sleep"
    /\ CandidateDone("deleted", TRUE)
    /\ UNCHANGED sweepFrame

\* The clock comes to the next iteration of a loop.  No iteration is in
\* flight: the calls a tick awaits take seconds, the loops minutes.
NextIteration ==
    IF sched_pc = "idle" /\ sched_next < sweep_next THEN sched_next ELSE sweep_next

Advance ==
    /\ sched_pc \in {"idle", "stopped"}
    /\ sweep_pc = "idle"
    /\ now < NextIteration
    /\ NextIteration <= Horizon
    /\ now' = NextIteration
    /\ UNCHANGED <<cacheVars, call, configVars, botVars>>

SendOutcomes == {"message", "Forbidden", "HTTPException"}
FetchOutcomes == {"message", "NotFound", "Forbidden", "HTTPException"}
DeleteOutcomes == {"deleted", "NotFound", "Forbidden", "HTTPException"}

Next ==
    \/ \E w \in WriteOutcomes(Store) : OnReady(w)
    \/ \E doc \in Documents : EditConfig(FileWith(doc))
    \/ \E w \in WriteOutcomes(Store) : CheckHolidayMessages(w)
    \/ \E o \in SendOutcomes : SendReturns(o)
    \/ \E w \in WriteOutcomes(Store) : CleanupTask(w)
    \/ \E o \in FetchOutcomes : FetchMessage(o)
    \/ \E o \in DeleteOutcomes : DeleteMessage(o)
    \/ SleepDone
    \/ Advance

vars == <<now, data, timestamps, max_size, call, configVars, botVars>>

Spec == Init /\ [][Next]_vars


(***************************************************************************)
(* The bot whose configuration nobody edits, started at any minute of the  *)
(* quarter of an hour, with any of the documents in config.json.           *)
(***************************************************************************)
InitWindow ==
    /\ now \in AllStartTimes
    /\ data = <<>>
    /\ timestamps = <<>>
    /\ max_size = BotCacheSize
    /\ file \in {FileWith(doc) : doc \in Documents}
    /\ InitBot

NextWindow ==
    \/ \E w \in WriteOutcomes(Store) : OnReady(w)
    \/ \E w \in WriteOutcomes(Store) : CheckHolidayMessages(w)
    \/ \E o \in SendOutcomes : SendReturns(o)
    \/ \E w \in WriteOutcomes(Store) : CleanupTask(w)
    \/ \E o \in FetchOutcomes : FetchMessage(o)
    \/ \E o \in DeleteOutcomes : DeleteMessage(o)
    \/ SleepDone
    \/ Advance

SpecWindow == InitWindow /\ [][NextWindow]_vars

(***************************************************************************)
(* The bot started at 16:00, the hour of its message, with a calendar of   *)
(* two days and a long retention; the edit moves the message to 22:00, the *)
(* time of the second sweep, and cuts the retention to an hour.            *)
(***************************************************************************)
KeepConfig ==
    [LaterConfig EXCEPT !.hour = 16, !.minute = 0, !.delete_after_hours = 72]

BriefConfig ==
    [LaterConfig EXCEPT !.hour = 22, !.minute = 0, !.delete_after_hours = 1]

OverlapDocuments == {KeepConfig, BriefConfig}

InitOverlap ==
    /\ now = 16 * 60
    /\ data = <<>>
    /\ timestamps = <<>>
    /\ max_size = BotCacheSize
    /\ file = FileWith(KeepConfig)
    /\ InitBot

NextOverlap ==
    \/ \E w \in WriteOutcomes(Store) : OnReady(w)
    \/ \E doc \in OverlapDocuments : EditConfig(FileWith(doc))
    \/ \E w \in WriteOutcomes(Store) : CheckHolidayMessages(w)
    \/ \E o \in SendOutcomes : SendReturns(o)
    \/ \E w \in WriteOutcomes(Store) : CleanupTask(w)
    \/ \E o \in FetchOutcomes : FetchMessage(o)
    \/ \E o \in DeleteOutcomes : DeleteMessage(o)
    \/ SleepDone
    \/ Advance

SpecOverlap == InitOverlap /\ [][NextOverlap]_vars

(***************************************************************************)
(* The configuration accessor on its own: a harness reads self.config at   *)
(* any minute while somebody writes, breaks or removes config.json, and    *)
(* keeps in `call` the fields it was read on and what it returned.  The    *)
(* clock of the process is far from 0, so the first read is never          *)
(* debounced.                                                              *)
(***************************************************************************)
MaxConfigClock == 15
MaxFileEdits == 3

InitConfig ==
    /\ now = DebounceSeconds \div 60
    /\ data = <<>>
    /\ timestamps = <<>>
    /\ max_size = BotCacheSize
    /\ file \in {FileMissing, FileWith(DefaultConfig)}
    /\ InitBot

\* One read of self.config: it raises, or returns a snapshot.
ReadConfig(write_ok) ==
    /\ InstallStore(ConfigAccess(Store, now, write_ok))
    /\ call' = [op |-> "config", key |-> "", at |-> now,
                value |-> IF ConfigRaises(Store, now)
                          THEN <<>>
                          ELSE <<ConfigValue(ConfigAccess(Store, now, write_ok))>>,
                raised |-> ConfigRaises(Store, now),
                before |-> <<Store>>]
    /\ UNCHANGED <<now, cacheVars, botVars>>

\* config.json is written, broken or removed.
WriteFile(f) ==
    /\ edits < MaxFileEdits
    /\ f # file
    /\ edits' = edits + 1
    /\ file' = f
    /\ file_mtime' = file_mtime + 1
    /\ UNCHANGED <<now, cacheVars, call, config, config_mtime, last_config_check,
                   holiday_keys_cache, channel_cache, sent_today_cache,
                   last_check_date, ready, sched_pc, sched_next, sched_local,
                   sweep_pc, sweep_next, to_delete, sched_log, sweep_log, sent_log,
                   readies>>

MinutePasses ==
    /\ now < MaxConfigClock
    /\ now' = now + 1
    /\ UNCHANGED <<cacheVars, call, configVars, botVars>>

NextConfig ==
    \/ \E w \in BOOLEAN : ReadConfig(w)
    \/ \E f \in FileStates : WriteFile(f)
    \/ MinutePasses

SpecConfig == InitConfig /\ [][NextConfig]_vars

(***************************************************************************)
(* The cache on its own: a caller makes any sequence of get, set, remove   *)
(* and cleanup_old calls while the clock runs, and keeps in `call` what it *)
(* called and the cache it called it on.                                   *)
(***************************************************************************)
MaxCap == 2
MaxClock == 3

CacheKeys == {"a", "b", "c"}
CacheValues == {"v1", "v2"}
CacheAges == {0, 48}

\* The bot is constructed and takes no step.
InitCache ==
    /\ now = 0
    /\ data = <<>>
    /\ timestamps = <<>>
    /\ max_size \in 0..MaxCap
    /\ InitBot
    /\ file = FileMissing

Called(op, k, v, raised) ==
    call' = [op |-> op, key |-> k, value |-> v, at |-> now,
             raised |-> raised, before |-> <<Cache>>]

CallGet(k) ==
    /\ Install(CacheGet(Cache, k, now))
    /\ Called("get", k, "", FALSE)
    /\ UNCHANGED <<now, configVars, botVars>>

CallSet(k, v) ==
    /\ IF CacheSetRaises(Cache)
       THEN UNCHANGED cacheVars /\ Called("set", k, v, TRUE)
       ELSE Install(CacheSet(Cache, k, v, now)) /\ Called("set", k, v, FALSE)
    /\ UNCHANGED <<now, configVars, botVars>>

CallRemove(k) ==
    /\ Install(CacheRemove(Cache, k))
    /\ Called("remove", k, "", FALSE)
    /\ UNCHANGED <<now, configVars, botVars>>

CallCleanupOld(h) ==
    /\ Install(CacheCleanupOld(Cache, h, now))
    /\ Called("cleanup_old", "", "", FALSE)
    /\ UNCHANGED <<now, configVars, botVars>>

ClockTick ==
    /\ now < MaxClock
    /\ now' = now + 1
    /\ UNCHANGED <<cacheVars, call, configVars, botVars>>

NextCache ==
    \/ \E k \in CacheKeys : CallGet(k)
    \/ \E k \in CacheKeys, v \in CacheValues : CallSet(k, v)
    \/ \E k \in CacheKeys : CallRemove(k)
    \/ \E h \in CacheAges : CallCleanupOld(h)
    \/ ClockTick

SpecCache == InitCache /\ [][NextCache]_vars

\* The cache the last call was made on.
Before == call.before[1]

SetCalled == call.op = "set" /\ ~call.raised

\* The keys the last call took out of the cache.
Evicted == DictKeys(Before.data) \ DictKeys(data)

\* C8: a cache constructed with max_size >= 1 never holds more than max_size
\* entries, after any sequence of set, get, remove and cleanup_old calls.
C8_CacheBound == max_size >= 1 => Len(data) <= max_size

\* A set has been called on a full cache, and the cache is full after it.
C8_Witness ==
    /\ SetCalled
    /\ max_size >= 1
    /\ Len(Before.data) = max_size
    /\ Len(data) = max_size

\* C9: a set of a new key on a cache that holds max_size entries evicts exactly
\* one entry, whose last-touched timestamp is the least of all entries; the
\* last-touched timestamp of a key is the time of its last set or of its last
\* get that found it, and no call touches another key's timestamp.
C9_Eviction ==
    /\ ( /\ SetCalled
         /\ max_size >= 1
         /\ ~DictHas(Before.data, call.key)
         /\ Len(Before.data) = max_size )
       => /\ Cardinality(Evicted) = 1
          /\ \A e \in Evicted : \A k \in DictKeys(Before.timestamps) :
                DictGet(Before.timestamps, e) <= DictGet(Before.timestamps, k)
          /\ DictHas(data, call.key)
    /\ SetCalled => DictGet(timestamps, call.key) = call.at
    /\ (call.op = "get" /\ DictHas(Before.data, call.key))
       => DictGet(timestamps, call.key) = call.at
    /\ call.op \in {"get", "set"}
       => \A k \in DictKeys(timestamps) \ {call.key} :
            DictGet(timestamps, k) = DictGet(Before.timestamps, k)

\* A new key was set on a full cache whose entries were touched at different
\* times, one of them by a get, and one entry went.
C9_Witness ==
    /\ SetCalled
    /\ max_size >= 2
    /\ ~DictHas(Before.data, call.key)
    /\ Len(Before.data) = max_size
    /\ \E j, k \in DictKeys(Before.timestamps) :
          /\ DictGet(Before.timestamps, j) < DictGet(Before.timestamps, k)
          /\ Before.timestamps[1][1] = k
    /\ Evicted # {}

\* C10: a set of a key that is already present replaces its value and evicts
\* nothing: the keys and the entry count are those of before the call.
C10_OverwriteKeepsAll ==
    (SetCalled /\ DictHas(Before.data, call.key))
    => /\ DictKeys(data) = DictKeys(Before.data)
       /\ Len(data) = Len(Before.data)
       /\ DictGet(data, call.key) = call.value

(***************************************************************************)
(* The scheduler and the sweeper.                                          *)
(***************************************************************************)

\* The results of a tick that has called channel.send.
SendInvoked == {"sending", "sent", "Forbidden", "HTTPException"}

\* The results of a tick whose send_holiday_message returned no message.
SendFailed == {"no_channel", "Forbidden", "HTTPException"}

\* The target time of the last tick, from the snapshot that tick read.
LastTarget == ReplaceTime(LastTick.at, LastTick.hour, LastTick.minute)

\* C1: within one day of one run, once channel.send has succeeded for the
\* day's key, channel.send is not called again for that key on that day.
C1_NoSendAfterSuccess == ~(sched_pc = "sending" /\ DateOf(now) \in sent_log)

\* C2: with ticks every 15 minutes and the tolerance of 10 minutes, on a day
\* whose key is in the calendar no two consecutive ticks straddle the whole
\* window, the one before the target time and the next after the window.
C2_WindowCovered ==
    Len(sched_log) = 2
    => ~( /\ LastTick.result = "outside_window"
          /\ sched_log[1].at < LastTarget
          /\ LastTick.at > LastTarget + ToleranceMinutes )

\* C3, as the specification states it: channel.send is called only at a tick
\* whose clock reading t has target_time <= t < target_time + tolerance.
C3_HalfOpenWindow ==
    (sched_log # <<>> /\ LastTick.result \in SendInvoked)
    => /\ LastTarget <= LastTick.at
       /\ LastTick.at < LastTarget + ToleranceMinutes

\* C3, as the code has it: channel.send is called only at a tick whose clock
\* reading t has target_time <= t <= target_time + tolerance on the day of
\* the key; never before target_time, never after target_time + tolerance.
C3_ClosedWindow ==
    (sched_log # <<>> /\ LastTick.result \in SendInvoked)
    => /\ LastTarget <= LastTick.at
       /\ LastTick.at <= LastTarget + ToleranceMinutes
       /\ LastTick.key = DateKey(LastTick.at)

\* A message went out at the tick that read the clock at exactly
\* target_time + tolerance.
C3_Witness ==
    /\ sched_log # <<>>
    /\ LastTick.result = "sent"
    /\ LastTick.at = LastTarget + ToleranceMinutes

\* The record of key k has been stored or replaced by this step.
Stored(k) ==
    /\ DictHas(data', k)
    /\ ~DictHas(data, k) \/ DictGet(data', k) # DictGet(data, k)

\* This step is a tick of the day of a failed send, the tick after it, that
\* skips the key.
SkipsAfterFailure ==
    /\ sched_log' # sched_log
    /\ Len(sched_log) >= 1
    /\ LastTick.result \in SendFailed
    /\ DateOf(LastTick.at) = DateOf(LastTick'.at)
    /\ LastTick'.result = "skipped"

C4_Step ==
    /\ (sent_today_cache' \ sent_today_cache # {} \/ \E k \in DictKeys(data') : Stored(k))
       => /\ sched_pc = "sending"
          /\ LastTick'.result = "sent"
          /\ sent_today_cache' \ sent_today_cache \subseteq {sched_local.date_key}
          /\ \A k \in DictKeys(data') : Stored(k) => k = sched_local.date_key
    /\ (sched_log' # sched_log /\ LastTick'.result \in SendFailed)
       => /\ UNCHANGED <<data, timestamps>>
          /\ sent_today_cache' \subseteq sent_today_cache
          /\ LastTick'.key \notin sent_today_cache'
    /\ SkipsAfterFailure => LastTick'.key \notin holiday_keys_cache'[1]

\* C4: the key is added to the guard, and a record is stored in the cache,
\* only in the step in which channel.send has returned a message; when the
\* send fails (no channel, Forbidden, HTTPException) the cache is unchanged
\* and the key is not in the guard, and the next tick of the day skips the
\* key only if the calendar no longer has it.
C4_OnlyAfterSuccess == [][C4_Step]_vars

\* A send failed, and the next tick of the same day called channel.send again
\* for the same key.
C4_Witness ==
    /\ Len(sched_log) = 2
    /\ sched_log[1].result \in {"Forbidden", "HTTPException"}
    /\ LastTick.result = "sending"
    /\ LastTick.key = sched_log[1].key
    /\ DateOf(sched_log[1].at) = DateOf(LastTick.at)
    /\ data = <<>>

\* The states of the sweeper inside one delete attempt.
Attempting == sweep_pc \in {"fetch_message", "delete", "sleep"}

\* This step ends the delete attempt on the first candidate.
AttemptEnds == Attempting /\ to_delete' # to_delete

\* C5: the key of a record leaves the cache only at the end of the sweeper's
\* delete attempt for that record, or by the eviction inside set; no other
\* step of a sweeper tick or of a scheduler tick removes it.
C5_LeavesByDeleteOrEviction ==
    [][ \A i \in DOMAIN data :
          ~DictHas(data', data[i][1])
          => \/ AttemptEnds /\ to_delete[1] = <<data[i][1], data[i][2].id>>
             \/ /\ sched_pc = "sending"
                /\ CacheSetEvicts(Cache, sched_local.date_key)
                /\ data[i][1] = OldestKey(timestamps) ]_vars

C6_Step ==
    /\ AttemptEnds
       => /\ to_delete' = Tail(to_delete)
          /\ ~DictHas(data', to_delete[1][1])
          /\ ~DictHas(timestamps', to_delete[1][1])
          /\ sweep_log'.key = to_delete[1][1]
          /\ sweep_log'.result \in {"deleted", "NotFound", "Forbidden", "HTTPException"}
          /\ sweep_pc' \in {"idle", "fetch_message"}
    /\ (sweep_pc = "fetch_message" /\ sweep_pc' \notin {"fetch_message", "delete"})
       => AttemptEnds
    /\ (sweep_pc = "delete" /\ sweep_pc' \notin {"delete", "sleep"}) => AttemptEnds
    /\ (sweep_pc = "sleep" /\ sweep_pc' # "sleep") => AttemptEnds

\* C6: for every candidate of a sweep, the key of the record is absent from
\* the cache after the delete attempt, whether the message was deleted, was
\* not found, was forbidden or the call failed for now; an attempt on a
\* message that is gone does not stop the sweep and leaves the key absent.
C6_RemovedOnAnyOutcome == [][C6_Step]_vars

\* An attempt failed for now and the key is gone from the cache.
C6_Witness ==
    /\ sweep_log.result = "HTTPException"
    /\ sweep_log.key # <<>>
    /\ ~DictHas(data, sweep_log.key)
    /\ ~DictHas(timestamps, sweep_log.key)

\* This step is a sweep whose get_target_channel returned a channel.
SweepWithChannel == sweep_next' # sweep_next /\ channel_cache' = "TextChannel"

C7_Step ==
    /\ SweepWithChannel
       => \A i \in DOMAIN data :
            LET k == data[i][1]
                T0 == data[i][2].timestamp
                R == config'[1].delete_after_hours * 60
                selected == \E j \in DOMAIN to_delete' :
                                to_delete'[j] = <<k, data[i][2].id>>
            IN  now - DictGet(timestamps, k) <= CacheMaxAgeHours * 60
                => /\ (now - T0 <= R) => (~selected /\ DictHas(data', k))
                   /\ (now - T0 > R) => (selected /\ sweep_pc' = "fetch_message")
    /\ AttemptEnds => ~DictHas(data', to_delete[1][1])

C19_MapsInStep ==
    /\ DictKeys(data) = DictKeys(timestamps)
    /\ Len(data) = Cardinality(DictKeys(data))
    /\ Len(timestamps) = Len(data)
    /\ timestamps # <<>> => DictHas(data, OldestKey(timestamps))

\* A get has missed on a full cache that holds other keys.
C19_Witness ==
    /\ call.op = "get"
    /\ ~DictHas(Before.data, call.key)
    /\ data # <<>>
    /\ Len(data) = max_size

\* C20: no set fails at runtime because of the capacity the cache was
\* constructed with (a capacity of zero being refused by the constructor).
C20_NoSetFailsOnCapacity == ~(call.op = "set" /\ call.raised)

(***************************************************************************)
(* The configuration accessor.                                             *)
(***************************************************************************)

\* This step has looked at the file system: exists and stat are called only
\* after _last_config_check was set to the time of the call.
ChecksFile == last_config_check' # last_config_check

C11_Step ==
    /\ ChecksFile
       => /\ last_config_check' = now
          /\ (now - last_config_check) * 60 >= DebounceSeconds
    /\ (file' # file \/ config' # config \/ config_mtime' # config_mtime)
       => ChecksFile \/ (file_mtime' = file_mtime + 1 /\ edits' = edits + 1)
    /\ (ConfigValue(Store)' # ConfigValue(Store) \/ config_mtime' # config_mtime)
       => /\ ChecksFile
          /\ file_mtime # config_mtime
          /\ file.kind = "document"
          /\ config' = file.doc
          /\ config_mtime' = file_mtime

\* C11: the accessor looks at the file system only when at least 300 s have
\* passed since it last did, so the reads of one such interval make at most
\* one check; and the snapshot it returns is replaced only at such a check
\* that finds the modification time of the file different from the one of
\* the last load.
C11_DebouncedReload == [][C11_Step]_vars

\* A read less than 300 s after the last check, of a file that has changed
\* since: nothing was checked, nothing was reloaded.
C11_Witness ==
    /\ call.op = "config"
    /\ Before.file.kind = "document"
    /\ Before.file_mtime # Before.config_mtime
    /\ call.at > Before.last_config_check
    /\ last_config_check = Before.last_config_check
    /\ config = Before.config
    /\ call.value = <<ConfigValue(Before)>>

\* C12: a read of the configuration does not raise; when the file is missing,
\* cannot be read or cannot be parsed it returns the snapshot of before, the
\* built-in default if nothing was loaded.
C12_KeepsLastGood ==
    call.op = "config"
    => /\ ~call.raised
       /\ Before.file.kind # "document" => call.value = <<ConfigValue(Before)>>

(***************************************************************************)
(* The guard, the ready event, and the calendar a tick decides on.         *)
(***************************************************************************)

\* This step is a run of check_holiday_messages.
IsTick == sched_next' # sched_next

\* C13: the guard is cleared only at a tick whose date differs from the date
\* the tick before it saw; nothing else takes a key out of the guard while
\* the process runs, not between two ticks of one day.
C13_ClearedOnlyAtRollover ==
    [][ sent_today_cache \ sent_today_cache' # {}
        => /\ IsTick
           /\ last_check_date # DateOf(now)
           /\ last_check_date' = DateOf(now) ]_vars

\* C14: before the ready event is set no tick has run: nothing was sent,
\* fetched or deleted, and the cache and the guard are as constructed.
C14_ReadinessGate ==
    ~ready
    => /\ sched_pc = "wait_until_ready"
       /\ sweep_pc = "wait_until_ready"
       /\ sched_log = <<>>
       /\ sweep_log.result = "none"
       /\ sent_log = {}
       /\ to_delete = <<>>
       /\ data = <<>>
       /\ timestamps = <<>>
       /\ sent_today_cache = {}

\* The loops are started and wait, the file has been edited meanwhile, and
\* the moment is inside the window of a day of the calendar.
C14_Witness ==
    /\ ~ready
    /\ edits > 0
    /\ sched_pc = "wait_until_ready"
    /\ sweep_pc = "wait_until_ready"
    /\ IsMessageTime(now, DefaultConfig.hour, DefaultConfig.minute, ToleranceMinutes)
    /\ DateKey(now) \in DOMAIN DefaultConfig.holiday_messages

\* C15: whatever well-formed edit of config.json comes between two ticks, a
\* tick ends as a send attempt or as a no-op; it does not raise when the
\* day's key is not in the calendar of the snapshot.
C15_TickNeverRaises ==
    /\ sched_pc # "stopped"
    /\ sched_log # <<>> => LastTick.result # "KeyError"

\* The keys the tick of this step tests the day's key against.
KeysUsed ==
    IF holiday_keys_cache # <<>> THEN holiday_keys_cache[1] ELSE holiday_keys_cache'[1]

\* C16: at a tick that goes on to read its send time and text from the
\* snapshot, the keys it tested the day against are the keys of the calendar
\* of that snapshot.
C16_KeysOfSnapshot ==
    [][ (IsTick /\ LastTick'.result # "skipped")
        => KeysUsed = DOMAIN config'[1].holiday_messages ]_vars

(***************************************************************************)
(* A sweep that is under way.                                              *)
(***************************************************************************)

\* The keys the sweep under way has still to remove.
SweepKeys == {to_delete[j][1] : j \in DOMAIN to_delete}

\* C17: while a sweep waits for fetch_message, for delete or in its sleep,
\* the key a tick writes into the cache is not among the keys that sweep
\* removes, so the record is still in the cache when the sweep ends.
C17_DisjointKeys ==
    [][ \A k \in DictKeys(data') : (Attempting /\ Stored(k)) => k \notin SweepKeys ]_vars

\* C18: within one sweep, a delete attempt that follows another one starts
\* after the sleep, whatever the earlier attempt came to.
C18_DelayBetweenAttempts ==
    (sweep_pc = "fetch_message" /\ sweep_log.result # "selected") => sweep_log.slept
====
